---------------------------- MODULE Spec2Model ----------------------------
(***************************************************************************)
(* Model of roundtrip_tester/src/lib.rs: the borsh round-trip conformance  *)
(* harness.  roundtrip_test_case(id, input, input_len, output, output_len) *)
(* decodes the caller's bytes with the type registered for id, asserts the *)
(* decoded value equals the reference value, re-encodes the reference and  *)
(* hands the resulting buffer to the caller.                               *)
(*                                                                         *)
(* Representation.  A byte is a number in 0..255 and a byte string is a    *)
(* sequence of bytes.  TLC's integers are 32 bits wide, so a fixed-width   *)
(* integer wider than 16 bits is held as its 16-bit limbs, least           *)
(* significant first: u32 and i32 (two's complement) are 2 limbs, f64 (its *)
(* IEEE-754 bits) is 4 limbs, u128 is 8 limbs.  An i16 is a number in      *)
(* -32768..32767.  A String is its UTF-8 bytes.  Option<Box<Hole>> is the  *)
(* empty sequence (None) or a one-element sequence (Some).                 *)
(***************************************************************************)
EXTENDS Integers, Sequences, FiniteSets, TLC

(***************************************************************************)
(* Encoding: borsh::to_vec through the derived BorshSerialize impls.       *)
(***************************************************************************)

\* One 16-bit limb, little-endian.
LE16(l) == << l % 256, l \div 256 >>

\* A fixed-width integer (u32, i32, u128) or float (f64): its limbs in order.
RECURSIVE ser_limbs(_)
ser_limbs(ls) ==
    IF ls = << >> THEN << >> ELSE LE16(Head(ls)) \o ser_limbs(Tail(ls))

\* i16: two's complement, little-endian.
ser_i16(n) == LE16(n % 65536)

\* The u32 element count written before a String's or a Vec's payload.
ser_len(n) == ser_limbs(<< n % 65536, n \div 65536 >>)

ser_String(s) == ser_len(Len(s)) \o s

RECURSIVE ser_elems(_)
ser_elems(d) ==
    IF d = << >> THEN << >> ELSE ser_limbs(Head(d)) \o ser_elems(Tail(d))

ser_Vec_i32(d) == ser_len(Len(d)) \o ser_elems(d)

ser_bool(b) == IF b THEN << 1 >> ELSE << 0 >>

\* struct TestCase0 { name: String, age: u128, prob: f64, data: Vec<i32> }
ser_TestCase0(v) ==
    ser_String(v.name) \o ser_limbs(v.age) \o ser_limbs(v.prob) \o ser_Vec_i32(v.data)

\* struct Hole { age: u32, id: [i16; 2], inner: Option<Box<Hole>> }
\* Option: a flag byte, 0 for None, 1 for Some and then the value.  The
\* fixed array has no count.
RECURSIVE ser_Hole(_)
ser_Option_Hole(o) == IF o = << >> THEN << 0 >> ELSE << 1 >> \o ser_Hole(o[1])

ser_Hole(h) ==
    ser_limbs(h.age) \o ser_i16(h.id[1]) \o ser_i16(h.id[2]) \o ser_Option_Hole(h.inner)

\* enum EmptyEnum { One, Two, Three }
ser_EmptyEnum(e) ==
    CASE e = "One" -> << 0 >>
      [] e = "Two" -> << 1 >>
      [] e = "Three" -> << 2 >>

\* enum Exists { No, Yes((), bool) }: the unit field takes no bytes.
ser_Exists(e) ==
    IF e.tag = "No" THEN << 0 >> ELSE << 1 >> \o << >> \o ser_bool(e.f1)

\* borsh::to_vec(&output) for the type T of the case.
to_vec(T, v) ==
    CASE T = "TestCase0" -> ser_TestCase0(v)
      [] T = "Hole" -> ser_Hole(v)
      [] T = "EmptyEnum" -> ser_EmptyEnum(v)
      [] T = "Exists" -> ser_Exists(v)

(***************************************************************************)
(* Decoding: borsh::from_slice through the derived BorshDeserialize impls. *)
(* A reader is the rest of the input slice.  A decode step yields          *)
(* [ok, val, rest, err].                                                   *)
(***************************************************************************)

Ok(v, r) == [ok |-> TRUE, val |-> v, rest |-> r, err |-> "none"]
Fail(e) == [ok |-> FALSE, val |-> << >>, rest |-> << >>, err |-> e]

Only(S) == CHOOSE x \in S : TRUE

\* The `?` operator: go on with a step's result, or return its error.
Try(d, K(_)) == Only({ IF t.ok THEN K(t) ELSE t : t \in { d } })

Drop(r, n) == SubSeq(r, n + 1, Len(r))

de_u8(r) ==
    IF Len(r) < 1 THEN Fail("UnexpectedEndOfInput") ELSE Ok(r[1], Drop(r, 1))

\* A fixed-width number of n limbs: read_exact of 2n bytes, little-endian.
de_limbs(r, n) ==
    IF Len(r) < 2 * n THEN Fail("UnexpectedEndOfInput")
    ELSE Ok([i \in 1..n |-> r[2 * i - 1] + 256 * r[2 * i]], Drop(r, 2 * n))

de_i16(r) ==
    Try(de_limbs(r, 1), LAMBDA u :
        Ok(IF u.val[1] >= 32768 THEN u.val[1] - 65536 ELSE u.val[1], u.rest))

de_bool(r) ==
    Try(de_u8(r), LAMBDA b :
        IF b.val = 0 THEN Ok(FALSE, b.rest)
        ELSE IF b.val = 1 THEN Ok(TRUE, b.rest)
        ELSE Fail("InvalidBool"))

\* f64 bits: exponent all ones and a non-zero mantissa is a NaN, which the
\* decoder refuses.
IsNaN(f) ==
    /\ (f[4] \div 16) % 2048 = 2047
    /\ (f[4] % 16 # 0 \/ f[3] # 0 \/ f[2] # 0 \/ f[1] # 0)

IsZero(f) == f[1] = 0 /\ f[2] = 0 /\ f[3] = 0 /\ f[4] % 32768 = 0

de_f64(r) ==
    Try(de_limbs(r, 4), LAMBDA f :
        IF IsNaN(f.val) THEN Fail("InvalidFloat") ELSE f)

\* Whether a byte string is well-formed UTF-8 (String::from_utf8).
Cont(b) == b >= 128 /\ b <= 191
RECURSIVE ValidUtf8(_)
ValidUtf8(str) ==
    \E s \in { str } :
        IF s = << >> THEN TRUE
        ELSE LET b == s[1] n == Len(s)
             IN  IF b < 128 THEN ValidUtf8(Drop(s, 1))
                 ELSE IF b >= 194 /\ b <= 223
                      THEN n >= 2 /\ Cont(s[2]) /\ ValidUtf8(Drop(s, 2))
                 ELSE IF b >= 224 /\ b <= 239
                      THEN /\ n >= 3
                           /\ Cont(s[2]) /\ Cont(s[3])
                           /\ (b = 224 => s[2] >= 160)
                           /\ (b = 237 => s[2] <= 159)
                           /\ ValidUtf8(Drop(s, 3))
                 ELSE IF b >= 240 /\ b <= 244
                      THEN /\ n >= 4
                           /\ Cont(s[2]) /\ Cont(s[3]) /\ Cont(s[4])
                           /\ (b = 240 => s[2] >= 144)
                           /\ (b = 244 => s[2] <= 143)
                           /\ ValidUtf8(Drop(s, 4))
                 ELSE FALSE

\* String: a u32 count, that many bytes, then the UTF-8 check.  A count
\* with a non-zero high limb is at least 65536, more than any input holds.
de_String(r) ==
    Try(de_limbs(r, 2), LAMBDA c :
        IF c.val[2] # 0 \/ c.val[1] > Len(c.rest)
        THEN Fail("UnexpectedEndOfInput")
        ELSE IF ValidUtf8(SubSeq(c.rest, 1, c.val[1]))
             THEN Ok(SubSeq(c.rest, 1, c.val[1]), Drop(c.rest, c.val[1]))
             ELSE Fail("InvalidUtf8"))

\* for _ in 0..len { result.push(i32::deserialize_reader(reader)?) }
RECURSIVE de_elems(_, _, _, _)
de_elems(r, i, len, acc) ==
    IF len[2] = 0 /\ i = len[1] THEN Ok(acc, r)
    ELSE Try(de_limbs(r, 2), LAMBDA e :
             de_elems(e.rest, i + 1, len, Append(acc, e.val)))

\* Vec<i32>: a u32 count, then that many elements.
de_Vec_i32(r) ==
    Try(de_limbs(r, 2), LAMBDA c : de_elems(c.rest, 0, c.val, << >>))

\* Fields in declaration order, no tags.
de_TestCase0(r) ==
    Try(de_String(r), LAMBDA name :
    Try(de_limbs(name.rest, 8), LAMBDA age :
    Try(de_f64(age.rest), LAMBDA prob :
    Try(de_Vec_i32(prob.rest), LAMBDA data :
        Ok([name |-> name.val, age |-> age.val,
            prob |-> prob.val, data |-> data.val], data.rest)))))

\* Option<Box<Hole>>: a flag byte, 0 for None, 1 for Some and the child.
RECURSIVE de_Hole(_)
de_Option_Hole(r) ==
    Try(de_u8(r), LAMBDA flag :
        IF flag.val = 0 THEN Ok(<< >>, flag.rest)
        ELSE IF flag.val = 1
        THEN Try(de_Hole(flag.rest), LAMBDA child : Ok(<< child.val >>, child.rest))
        ELSE Fail("InvalidDiscriminant"))

\* A faulty variant: the two elements of id read in the wrong order.
de_Hole_swapped(r) ==
    Try(de_limbs(r, 2), LAMBDA age :
    Try(de_i16(age.rest), LAMBDA id1 :
    Try(de_i16(id1.rest), LAMBDA id2 :
    Try(de_Option_Hole(id2.rest), LAMBDA inner :
        Ok([age |-> age.val, id |-> << id2.val, id1.val >>,
            inner |-> inner.val], inner.rest)))))

de_Hole(r) ==
    Try(de_limbs(r, 2), LAMBDA age :
    Try(de_i16(age.rest), LAMBDA id1 :
    Try(de_i16(id1.rest), LAMBDA id2 :
    Try(de_Option_Hole(id2.rest), LAMBDA inner :
        Ok([age |-> age.val, id |-> << id1.val, id2.val >>,
            inner |-> inner.val], inner.rest)))))

\* A faulty variant: the enum with a fourth variant.
de_EmptyEnum_four(r) ==
    Try(de_u8(r), LAMBDA tag :
        CASE tag.val = 0 -> Ok("One", tag.rest)
          [] tag.val = 1 -> Ok("Two", tag.rest)
          [] tag.val = 2 -> Ok("Three", tag.rest)
          [] tag.val = 3 -> Ok("Four", tag.rest)
          [] OTHER -> Fail("InvalidDiscriminant"))

de_EmptyEnum(r) ==
    Try(de_u8(r), LAMBDA tag :
        CASE tag.val = 0 -> Ok("One", tag.rest)
          [] tag.val = 1 -> Ok("Two", tag.rest)
          [] tag.val = 2 -> Ok("Three", tag.rest)
          [] OTHER -> Fail("InvalidDiscriminant"))

\* Yes((), bool): the unit field reads nothing.
de_Exists(r) ==
    Try(de_u8(r), LAMBDA tag :
        CASE tag.val = 0 -> Ok([tag |-> "No", f1 |-> FALSE], tag.rest)
          [] tag.val = 1 ->
               Try(de_bool(tag.rest), LAMBDA b :
                   Ok([tag |-> "Yes", f1 |-> b.val], b.rest))
          [] OTHER -> Fail("InvalidDiscriminant"))

deserialize(T, r) ==
    CASE T = "TestCase0" -> de_TestCase0(r)
      [] T = "Hole" -> de_Hole(r)
      [] T = "EmptyEnum" -> de_EmptyEnum(r)
      [] T = "Exists" -> de_Exists(r)

\* borsh::from_slice: one value, and every byte of the slice consumed.
from_slice(T, v) ==
    Try(deserialize(T, v), LAMBDA d :
        IF d.rest # << >> THEN Fail("TrailingBytes") ELSE d)

\* f64's PartialEq: a NaN equals nothing, the two zeros are equal.
F64Eq(a, b) == ~IsNaN(a) /\ ~IsNaN(b) /\ (a = b \/ (IsZero(a) /\ IsZero(b)))

\* A faulty variant: an equality that leaves the float field out.
PartialEq_without_prob(T, a, b) ==
    IF T = "TestCase0"
    THEN a.name = b.name /\ a.age = b.age /\ a.data = b.data
    ELSE a = b

\* The derived PartialEq of the case's type.
PartialEq(T, a, b) ==
    IF T = "TestCase0"
    THEN a.name = b.name /\ a.age = b.age /\ F64Eq(a.prob, b.prob) /\ a.data = b.data
    ELSE a = b

(***************************************************************************)
(* State.                                                                  *)
(***************************************************************************)
VARIABLES
    feed,           \* the (id, input) pairs the driver may pass
    proc,           \* "running", or "aborted" once a call panicked
    pc,             \* pc[c]: where caller c is in roundtrip_test_case
    args,           \* args[c]: id and input of c's current or last call
    out,            \* out[c]: the local Vec `out`, as pointer and length
    heap,           \* heap[a]: whether a is allocated, and the bytes there
    out_ptr_slot,   \* out_ptr_slot[c]: c's `*output`
    out_len_slot,   \* out_len_slot[c]: c's `*output_len`
    abort,          \* id, input and panic of the call that ended the process
    results,        \* history: id, input and bytes of every run_test that returned
    handed          \* history: the buffers handed to callers

vars == << feed, proc, pc, args, out, heap, out_ptr_slot, out_len_slot,
           abort, results, handed >>

(***************************************************************************)
(* The test cases: run_test's match arms.                                  *)
(***************************************************************************)

\* 0: name "ccccc", age 541212312321534534, prob 0.69, data [31, 69]
Case0 ==
    [name |-> << 99, 99, 99, 99, 99 >>,
     age  |-> << 10822, 2046, 50619, 1922, 0, 0, 0, 0 >>,
     prob |-> << 44564, 57671, 5242, 16358 >>,
     data |-> << << 31, 0 >>, << 69, 0 >> >>]

\* 1: name "", age 699, prob 0.01, data []
Case1 ==
    [name |-> << >>,
     age  |-> << 699, 0, 0, 0, 0, 0, 0, 0 >>,
     prob |-> << 5243, 18350, 31457, 16260 >>,
     data |-> << >>]

Case2 == [age |-> << 69, 0 >>, id |-> << 3, 9 >>, inner |-> << >>]

Case3 ==
    [age |-> << 1131, 0 >>, id |-> << 3, 10 >>,
     inner |-> << [age |-> << 1333, 0 >>, id |-> << 6, 9 >>, inner |-> << >>] >>]

Case4 == "Two"

Case5 == [tag |-> "No", f1 |-> FALSE]

Case6 == [tag |-> "Yes", f1 |-> TRUE]

\* id -> the type the input is decoded as, and the value it must equal.
Registry ==
    [id \in 0..6 |->
        CASE id = 0 -> [T |-> "TestCase0", ref |-> Case0]
          [] id = 1 -> [T |-> "TestCase0", ref |-> Case1]
          [] id = 2 -> [T |-> "Hole", ref |-> Case2]
          [] id = 3 -> [T |-> "Hole", ref |-> Case3]
          [] id = 4 -> [T |-> "EmptyEnum", ref |-> Case4]
          [] id = 5 -> [T |-> "Exists", ref |-> Case5]
          [] id = 6 -> [T |-> "Exists", ref |-> Case6]]

(***************************************************************************)
(* The runner.  A call either returns bytes or panics; a panic that leaves *)
(* the extern "C" function ends the process.                               *)
(***************************************************************************)

Return(bytes) == [kind |-> "return", bytes |-> bytes, err |-> "none"]
Panic(e) == [kind |-> "panic", bytes |-> << >>, err |-> e]

\* Result::unwrap: the value, or a panic with the error.
Unwrap(d, K(_)) == Only({ IF t.ok THEN K(t.val) ELSE Panic(t.err) : t \in { d } })

\* A faulty variant: no assert_eq between the decoded value and the reference.
run_case_no_assert(T, input, output) ==
    Unwrap(from_slice(T, input), LAMBDA decoded : Return(to_vec(T, output)))

\* A faulty variant: T::deserialize on the slice, which leaves trailing bytes be.
run_case_deserialize(T, input, output) ==
    Unwrap(deserialize(T, input), LAMBDA decoded :
        IF ~PartialEq(T, decoded, output) THEN Panic("RoundtripMismatch")
        ELSE Return(to_vec(T, output)))

\* A faulty variant: assert_eq!(from_slice(input).ok(), Some(output)), which
\* reports a decode failure as a mismatch.
run_case_ok(T, input, output) ==
    Only({ IF t.ok /\ PartialEq(T, t.val, output) THEN Return(to_vec(T, output))
           ELSE Panic("RoundtripMismatch") : t \in { from_slice(T, input) } })

run_case(T, input, output) ==
    Unwrap(from_slice(T, input), LAMBDA decoded :
        IF ~PartialEq(T, decoded, output) THEN Panic("RoundtripMismatch")
        ELSE Return(to_vec(T, output)))

\* A faulty variant: an unregistered id falls into the last arm.
run_test_last_arm(id, input) ==
    IF id \in DOMAIN Registry
    THEN run_case(Registry[id].T, input, Registry[id].ref)
    ELSE run_case(Registry[6].T, input, Registry[6].ref)

\* A faulty variant: a registry whose entries are taken out by the first call that
\* uses them.
run_test_takes(id, input) ==
    IF id \in DOMAIN Registry /\ ~(\E r \in results : r.id = id)
    THEN run_case(Registry[id].T, input, Registry[id].ref)
    ELSE Panic("UnknownTestCase")

run_test(id, input) ==
    IF id \in DOMAIN Registry
    THEN run_case(Registry[id].T, input, Registry[id].ref)
    ELSE Panic("UnknownTestCase")

(***************************************************************************)
(* Bounds and the inputs the driver passes.                                *)
(***************************************************************************)

\* Concurrent callers of roundtrip_test_case.
NumCallers == 2
\* Addresses of the heap: no buffer is ever released, so this many calls
\* at most return.
NumAddrs == 3

Callers == 1..NumCallers
Addrs == 1..NumAddrs
Bytes == 0..255
\* id: u8
Ids == 0..255

RefBytes(id) == to_vec(Registry[id].T, Registry[id].ref)
AllRefBytes == { RefBytes(id) : id \in DOMAIN Registry }

\* Values of each type besides the reference values: other field values, a
\* two-byte UTF-8 character, negative numbers, a tree of depth 2, every
\* enum variant.
Samples(T) ==
    CASE T = "TestCase0" ->
           { Case0, Case1,
             [Case0 EXCEPT !.name = << 99, 99, 99, 99, 100 >>],
             [Case0 EXCEPT !.data = << << 31, 0 >> >>],
             [Case1 EXCEPT !.name = << 195, 169 >>,
                           !.data = << << 65535, 65535 >> >>],
             [Case1 EXCEPT !.prob = << 0, 0, 0, 32768 >>] }
      [] T = "Hole" ->
           { Case2, Case3,
             [Case2 EXCEPT !.id = << -1, -32768 >>],
             [Case3 EXCEPT !.inner = << [Case3.inner[1] EXCEPT !.inner = << Case2 >>] >>] }
      [] T = "EmptyEnum" -> { "One", "Two", "Three" }
      [] T = "Exists" -> { Case5, Case6, [tag |-> "Yes", f1 |-> FALSE] }

Encodings(T) == { to_vec(T, v) : v \in Samples(T) }

Prefixes(s) == { SubSeq(s, 1, k) : k \in 0..(Len(s) - 1) }
Extended(s) == { Append(s, b) : b \in Bytes }
Substituted(s) == { [s EXCEPT ![p] = b] : p \in DOMAIN s, b \in Bytes }

\* The bytes of a TestCase0 whose prob is a NaN (no value encodes to them).
NaNBytes == { ser_TestCase0([Case1 EXCEPT !.prob = << 0, 0, 0, 32760 >>]),
              ser_TestCase0([Case0 EXCEPT !.prob = << 1, 0, 0, 65520 >>]) }

\* What a call is fed.  A registered id: valid encodings of its type, their
\* strict prefixes, each with one byte appended, the reference encoding
\* with one byte replaced, and the other cases' reference encodings.  An
\* unregistered id: well-formed and malformed inputs.
Inputs(id) ==
    IF id \in DOMAIN Registry
    THEN LET E == Encodings(Registry[id].T)
         IN  E \cup UNION { Prefixes(e) : e \in E }
               \cup UNION { Extended(e) : e \in E }
               \cup Substituted(RefBytes(id))
               \cup AllRefBytes
               \cup NaNBytes
    ELSE AllRefBytes \cup { << >>, << 255 >>, << 1, 2 >> }

\* The driver of the concurrent runs: the reference encodings of three
\* cases of different types and lengths, and inputs that make a call fail
\* in each way (truncated, trailing byte, wrong value, unregistered id).
DriverPairs ==
    { [id |-> id, input |-> RefBytes(id)] : id \in { 0, 4, 6 } }
    \cup { [id |-> 4, input |-> << >>], [id |-> 4, input |-> RefBytes(6)],
           [id |-> 0, input |-> RefBytes(1)], [id |-> 6, input |-> << 2 >>],
           [id |-> 7, input |-> << >>], [id |-> 255, input |-> RefBytes(4)] }

NoVec == [ptr |-> 0, len |-> 0]
NoArgs == [id |-> 0, input |-> << >>]
NoAbort == [id |-> 0, input |-> << >>, err |-> "none"]
EmptyHeap == [a \in Addrs |-> [live |-> FALSE, bytes |-> << >>]]

Start(f) ==
    /\ feed = f
    /\ proc = "running"
    /\ pc = [c \in Callers |-> "fresh"]
    /\ args = [c \in Callers |-> NoArgs]
    /\ out = [c \in Callers |-> NoVec]
    /\ heap = EmptyHeap
    /\ out_ptr_slot = [c \in Callers |-> 0]
    /\ out_len_slot = [c \in Callers |-> 0]
    /\ abort = NoAbort
    /\ results = {}
    /\ handed = {}

Init == Start(DriverPairs)

InitCodec == \E id \in Ids : \E i \in Inputs(id) : Start({ [id |-> id, input |-> i] })

FreeAddrs == { a \in Addrs : ~heap[a].live }

\* Lines 17-18: let mut out = run_test(id, input).  A panic ends the
\* process and all its memory with it; otherwise the returned Vec lives at
\* an address the allocator picks.
Call(c) ==
    /\ proc = "running"
    /\ pc[c] \in { "fresh", "returned" }
    /\ \E p \in feed :
         \E r \in { run_test(p.id, p.input) } :
             IF r.kind = "panic"
             THEN /\ proc' = "aborted"
                  /\ abort' = [id |-> p.id, input |-> p.input, err |-> r.err]
                  /\ pc' = [d \in Callers |-> "fresh"]
                  /\ args' = [d \in Callers |-> NoArgs]
                  /\ out' = [d \in Callers |-> NoVec]
                  /\ heap' = EmptyHeap
                  /\ out_ptr_slot' = [d \in Callers |-> 0]
                  /\ out_len_slot' = [d \in Callers |-> 0]
                  /\ handed' = {}
                  /\ UNCHANGED << feed, results >>
             ELSE \E a \in FreeAddrs :
                  /\ heap' = [heap EXCEPT ![a] = [live |-> TRUE, bytes |-> r.bytes]]
                  /\ out' = [out EXCEPT ![c] = [ptr |-> a, len |-> Len(r.bytes)]]
                  /\ args' = [args EXCEPT ![c] = p]
                  /\ pc' = [pc EXCEPT ![c] = "L19"]
                  /\ results' = results \cup
                        { [id |-> p.id, input |-> p.input, bytes |-> r.bytes] }
                  /\ UNCHANGED << feed, proc, out_ptr_slot, out_len_slot, abort, handed >>

\* Line 19: *output = out.as_mut_ptr()
WritePtr(c) ==
    /\ proc = "running"
    /\ pc[c] = "L19"
    /\ out_ptr_slot' = [out_ptr_slot EXCEPT ![c] = out[c].ptr]
    /\ pc' = [pc EXCEPT ![c] = "L20"]
    /\ UNCHANGED << feed, proc, args, out, heap, out_len_slot, abort, results, handed >>

\* A faulty variant: the Vec's capacity (to_vec reserves 1024 bytes) for its length.
WriteLen_capacity(c) ==
    /\ proc = "running"
    /\ pc[c] = "L20"
    /\ out_len_slot' = [out_len_slot EXCEPT ![c] = 1024]
    /\ pc' = [pc EXCEPT ![c] = "L21"]
    /\ UNCHANGED << feed, proc, args, out, heap, out_ptr_slot, abort, results, handed >>

\* Line 20: *output_len = out.len()
WriteLen(c) ==
    /\ proc = "running"
    /\ pc[c] = "L20"
    /\ out_len_slot' = [out_len_slot EXCEPT ![c] = out[c].len]
    /\ pc' = [pc EXCEPT ![c] = "L21"]
    /\ UNCHANGED << feed, proc, args, out, heap, out_ptr_slot, abort, results, handed >>

\* A faulty variant: `out` dropped at the end of the function, which frees its
\* buffer.
Forget_drops(c) ==
    /\ proc = "running"
    /\ pc[c] = "L21"
    /\ out' = [out EXCEPT ![c] = NoVec]
    /\ pc' = [pc EXCEPT ![c] = "returned"]
    /\ heap' = [heap EXCEPT ![out[c].ptr] = [live |-> FALSE, bytes |-> << >>]]
    /\ handed' = handed \cup
          { [ptr |-> out_ptr_slot[c], len |-> out_len_slot[c],
             bytes |-> heap[out[c].ptr].bytes] }
    /\ UNCHANGED << feed, proc, args, out_ptr_slot, out_len_slot, abort, results >>

\* Lines 21-23: std::mem::forget(out) and return: the local is gone, its
\* buffer stays allocated, and the caller holds the pointer and the length.
Forget(c) ==
    /\ proc = "running"
    /\ pc[c] = "L21"
    /\ out' = [out EXCEPT ![c] = NoVec]
    /\ pc' = [pc EXCEPT ![c] = "returned"]
    /\ handed' = handed \cup
          { [ptr |-> out_ptr_slot[c], len |-> out_len_slot[c],
             bytes |-> heap[out[c].ptr].bytes] }
    /\ UNCHANGED << feed, proc, args, heap, out_ptr_slot, out_len_slot, abort, results >>

Next == \E c \in Callers : Call(c) \/ WritePtr(c) \/ WriteLen(c) \/ Forget(c)

Spec == Init /\ [][Next]_vars

SpecCodec == InitCodec /\ [][Next]_vars

(***************************************************************************)
(* Properties.                                                             *)
(***************************************************************************)

Aborted == proc = "aborted"

\* No call with this id and input has returned.
NeverReturned(p) == ~(\E r \in results : r.id = p.id /\ r.input = p.input)

\* A call with this id and input does not return, and when it is the call
\* that ended the process, it ended it with panic e.
FailsWith(p, e) ==
    /\ NeverReturned(p)
    /\ (Aborted /\ abort.id = p.id /\ abort.input = p.input => abort.err = e)

IsStrictPrefix(s, e) == Len(s) < Len(e) /\ s = SubSeq(e, 1, Len(s))

\* C1: when roundtrip_test_case has returned, the id is one of 0..6, the
\* caller's pointer slot holds the address of an allocated buffer that no
\* other returned call was given, the buffer holds exactly the encoding of
\* the reference value of the id, and the length slot holds its length.
C1_OutputIsReferenceEncoding ==
    \A c \in Callers :
        pc[c] = "returned" =>
            /\ args[c].id \in 0..6
            /\ out_ptr_slot[c] \in Addrs
            /\ heap[out_ptr_slot[c]].live
            /\ heap[out_ptr_slot[c]].bytes =
                   to_vec(Registry[args[c].id].T, Registry[args[c].id].ref)
            /\ out_len_slot[c] = Len(heap[out_ptr_slot[c]].bytes)
            /\ \A d \in Callers \ { c } :
                   pc[d] = "returned" => out_ptr_slot[d] # out_ptr_slot[c]

\* Two callers have returned, one of them from the depth-1 tree case.
C1_Witness ==
    /\ \A c \in Callers : pc[c] = "returned"
    /\ \E c \in Callers : args[c].id = 3 /\ out_len_slot[c] = 18

\* C2: for every id in 0..6 the call on the encoding of the id's reference
\* value never ends the process: decoding yields a value equal to the
\* reference and the equality assertion passes.
C2_RoundTripLaw ==
    \A id \in 0..6 :
        Aborted /\ abort.id = id => abort.input # RefBytes(id)

\* Every case returned on its reference encoding: here the struct case.
C2_Witness ==
    \E r \in results : r.id = 0 /\ r.input = RefBytes(0) /\ Len(r.input) = 45

\* Whether the input decodes, all bytes consumed, to a value of the case's
\* type that differs from the reference; the encodings of the sample
\* values other than the reference are such inputs.
DecodesToOther(p) ==
    LET T == Registry[p.id].T
        ref == Registry[p.id].ref
    IN  \/ \E d \in { from_slice(T, p.input) } : d.ok /\ ~PartialEq(T, d.val, ref)
        \/ \E v \in Samples(T) : v # ref /\ p.input = to_vec(T, v)

\* C3: for an id in 0..6 and an input that decodes to a value other than
\* the reference, the call never returns bytes, and it ends the process
\* with RoundtripMismatch.
C3_MismatchIsFatal ==
    \A p \in feed :
        p.id \in 0..6 /\ DecodesToOther(p) => FailsWith(p, "RoundtripMismatch")

\* Case 3 fed a well-formed tree of depth 2.
C3_Witness ==
    /\ Aborted
    /\ abort.id = 3
    /\ Len(abort.input) = 27
    /\ from_slice("Hole", abort.input).ok
    /\ abort.err = "RoundtripMismatch"

\* C4: the registered ids are exactly 0..6: a call ends the process with
\* UnknownTestCase exactly when its id is outside 0..6, whatever the input
\* (so never with a decode error), and no such call returns bytes.
C4_UnknownIdIsFatal ==
    /\ Aborted => (abort.err = "UnknownTestCase" <=> abort.id \notin 0..6)
    /\ \A r \in results : r.id \in 0..6
    /\ \A p \in feed : p.id \notin 0..6 => FailsWith(p, "UnknownTestCase")

\* An unregistered id with an input no type decodes.
C4_Witness ==
    Aborted /\ abort.id = 255 /\ abort.input = << >> /\ abort.err = "UnknownTestCase"

\* Whether the input is a valid encoding of the case's type followed by
\* one more byte.
HasTrailingByte(p) ==
    /\ p.input # << >>
    /\ SubSeq(p.input, 1, Len(p.input) - 1) \in Encodings(Registry[p.id].T)

\* C5: for an id in 0..6, a valid encoding of the case's type (the
\* reference value's among them) with one byte appended does not decode:
\* the call ends the process with TrailingBytes, not with a mismatch.
C5_TrailingByte ==
    \A p \in feed :
        p.id \in 0..6 /\ HasTrailingByte(p) => FailsWith(p, "TrailingBytes")

\* Case 0's reference encoding with a zero byte appended.
C5_Witness ==
    /\ Aborted
    /\ abort.id = 0
    /\ abort.input = Append(RefBytes(0), 0)
    /\ abort.err = "TrailingBytes"

\* Whether the input is a strict prefix of a valid encoding of the type.
IsTruncated(p) ==
    \E e \in Encodings(Registry[p.id].T) : IsStrictPrefix(p.input, e)

\* Whether the String count at the head of a TestCase0 input asks for more
\* bytes than follow it.
TextCountTooBig(p) ==
    /\ p.id \in { 0, 1 }
    /\ Len(p.input) >= 4
    /\ \/ p.input[3] # 0
       \/ p.input[4] # 0
       \/ p.input[1] + 256 * p.input[2] > Len(p.input) - 4

\* Whether the input is the reference encoding of a TestCase0 case with
\* the count of data changed to ask for more elements than follow it.
SeqCountTooBig(p) ==
    /\ p.id \in { 0, 1 }
    /\ LET ref == RefBytes(p.id)
           off == Len(ref) - 4 * Len(Registry[p.id].ref.data) - 4
       IN  /\ Len(p.input) = Len(ref)
           /\ \A i \in 1..Len(ref) : (i <= off \/ i > off + 4) => p.input[i] = ref[i]
           /\ \/ p.input[off + 3] # 0
              \/ p.input[off + 4] # 0
              \/ 4 * (p.input[off + 1] + 256 * p.input[off + 2]) > Len(ref) - off - 4

\* C6: for an id in 0..6, a strict prefix (the empty one too) of a valid
\* encoding of the case's type, and an input whose String or Vec count
\* asks for more than the bytes that follow, do not decode: the call ends
\* the process with UnexpectedEndOfInput.
C6_Truncation ==
    \A p \in feed :
        p.id \in 0..6 /\ (IsTruncated(p) \/ TextCountTooBig(p) \/ SeqCountTooBig(p))
            => FailsWith(p, "UnexpectedEndOfInput")

\* Case 0's reference encoding cut inside the second element of data.
C6_Witness ==
    /\ Aborted
    /\ abort.id = 0
    /\ abort.input = SubSeq(RefBytes(0), 1, 43)
    /\ abort.err = "UnexpectedEndOfInput"

\* Whether the decoder reads a discriminant byte out of range: the ordinal
\* of EmptyEnum (3 variants) or of Exists (2 variants), or the flag of
\* Hole.inner, which follows the 8 bytes of age and id, at the top of the
\* tree or one level down.
BadDiscriminant(p) ==
    \/ p.id = 4 /\ Len(p.input) >= 1 /\ p.input[1] >= 3
    \/ p.id \in { 5, 6 } /\ Len(p.input) >= 1 /\ p.input[1] >= 2
    \/ p.id \in { 2, 3 } /\ Len(p.input) >= 9 /\ p.input[9] \notin { 0, 1 }
    \/ p.id \in { 2, 3 } /\ Len(p.input) >= 18 /\ p.input[9] = 1
          /\ p.input[18] \notin { 0, 1 }

\* C7: an input whose enum ordinal is not below the number of variants, or
\* whose Option flag is neither 0 nor 1, decodes to no value: the call ends
\* the process with InvalidDiscriminant.
C7_DiscriminantBounds ==
    \A p \in feed : BadDiscriminant(p) => FailsWith(p, "InvalidDiscriminant")

\* Ordinal 3 for EmptyEnum, the first one out of range.
C7_Witness ==
    Aborted /\ abort.id = 4 /\ abort.input = << 3 >> /\ abort.err = "InvalidDiscriminant"

\* What each failing call of the driver does, by its id and input alone.
ExpectedAborts ==
    { [id |-> 4, input |-> << >>, err |-> "UnexpectedEndOfInput"],
      [id |-> 4, input |-> << 1, 1 >>, err |-> "TrailingBytes"],
      [id |-> 0, input |-> RefBytes(1), err |-> "RoundtripMismatch"],
      [id |-> 6, input |-> << 2 >>, err |-> "InvalidDiscriminant"],
      [id |-> 7, input |-> << >>, err |-> "UnknownTestCase"],
      [id |-> 255, input |-> << 1 >>, err |-> "UnknownTestCase"] }

\* C8: through any interleaving of calls, every call that returned for the
\* same id returned the same bytes, a call that ends the process has an id
\* and input for which no earlier call returned, and it ends the process
\* in the way its id and input alone determine, whatever calls came before:
\* what a call does depends on its id and input, not on the calls before.
C8_NoCrossCallState ==
    /\ \A r1, r2 \in results : r1.id = r2.id => r1.bytes = r2.bytes
    /\ \A r \in results : ~(Aborted /\ abort.id = r.id /\ abort.input = r.input)
    /\ Aborted => abort \in ExpectedAborts

\* Every address was handed out, and then a call for a case that had
\* returned before, now on another input, ended the process.
C8_Witness ==
    /\ Aborted
    /\ Cardinality(results) = 3
    /\ \E r \in results : r.id = abort.id /\ r.input # abort.input

\* The addresses the running calls hold in their local `out`.
InFlight == { c \in Callers : pc[c] \in { "L19", "L20", "L21" } }

\* C9: every buffer handed to a caller is still allocated and still holds
\* the bytes, and has the length, it was handed out with; each returned or
\* running call has one buffer of its own (the allocated buffers are as
\* many as these calls, the running calls' buffers differ from each other
\* and from the handed ones); a call that has returned holds no pointer.
C9_OwnershipTransfer ==
    /\ \A h \in handed :
          /\ h.ptr \in Addrs
          /\ heap[h.ptr].live
          /\ heap[h.ptr].bytes = h.bytes
          /\ h.len = Len(h.bytes)
    /\ Cardinality({ a \in Addrs : heap[a].live })
          = Cardinality(handed) + Cardinality(InFlight)
    /\ \A c \in InFlight :
          /\ heap[out[c].ptr].live
          /\ \A h \in handed : h.ptr # out[c].ptr
          /\ \A d \in InFlight \ { c } : out[d].ptr # out[c].ptr
    /\ \A c \in Callers \ InFlight : out[c] = NoVec

\* Every address handed out, the last one after the others.
C9_Witness ==
    /\ Cardinality(handed) = NumAddrs
    /\ \A c \in Callers : pc[c] = "returned"
    /\ \E h1, h2 \in handed : h1.len # h2.len

\* C10: a call returns only on the bytes of the reference encoding: every
\* returned call's output bytes equal its input bytes, at the caller too.
C10_CanonicalEncoding ==
    /\ \A r \in results : r.input = r.bytes /\ r.input = RefBytes(r.id)
    /\ \A c \in Callers :
          pc[c] = "returned" /\ out_ptr_slot[c] \in Addrs =>
              heap[out_ptr_slot[c]].bytes = args[c].input

\* Case 1, whose float and count bytes each have near misses, returned.
C10_Witness ==
    \E c \in Callers :
        /\ pc[c] = "returned"
        /\ args[c].id = 1
        /\ heap[out_ptr_slot[c]].bytes = args[c].input
        /\ Len(args[c].input) = 32

=============================================================================
